---- MODULE Spec2Model ----
(***************************************************************************)
(* SlideMaster: the token store (secrets/slidev_tokens.json), the token    *)
(* issuer (_generate_presentation_token in slide_master_3000.py), the      *)
(* token gate (TokenAuthHandler in slidev_auth.py) and the view action     *)
(* with its process supervision (_build_slidev, _start_slidev,             *)
(* _stop_slidev in slide_master_3000.py), and the view action of the       *)
(* variant slidev_viewer.py.                                               *)
(*                                                                         *)
(* The specifications share the state:                                     *)
(*   Spec       the gate, the clock, the tokens file and one issuing       *)
(*              session;                                                   *)
(*   SpecIssue  the sessions issuing concurrently, and the clock;          *)
(*   SpecView   the whole view action, one after another in a session:     *)
(*              _build_slidev with the port, the processes and the         *)
(*              content directory, then the issuer and the URL;            *)
(*              SpecViewFair is SpecView with weak fairness;               *)
(*   SpecViewer the view action of slidev_viewer.py, the sessions one      *)
(*              after another;                                             *)
(*   SpecServe  the view actions of the sessions, one after another, and   *)
(*              GET requests to the gate;                                  *)
(*   SpecServer the gate as a server: connections, request paths and a     *)
(*              tokens file written earlier;                               *)
(*   SpecViews  the view actions of the sessions, concurrently;            *)
(*   SpecLsof   SpecView on a port with a listener and a client;           *)
(*   SpecLogin  authenticate and main of one session, with the token       *)
(*              issuance of its view actions.                              *)
(* In Spec, SpecIssue and SpecLogin a session enters view_presentation at  *)
(* slide_master_3000.py:427, where _build_slidev has returned: the issuer  *)
(* and the gate read none of the supervisor's variables. Only SpecLogin    *)
(* runs authenticate; in the other specifications a view action is one of  *)
(* a run that authenticate let through, and session_state is left alone.   *)
(***************************************************************************)
EXTENDS Integers, Sequences, FiniteSets, TLC

VARIABLES
    now,          \* time.time(), in whole seconds
    tokens_file,  \* the file at SLIDEV_TOKENS_FILE: [kind, data], kind being
                  \* "missing", "garbage" (not JSON), "empty" (truncated) or "json"
    resp,         \* the gate's last response: [method, query, path, status, static,
                  \* file, body, log], log being the log records of the request
    conn,         \* per client connection to the gate: "closed", "connected"
                  \* (waiting to be accepted) or "accepted" (its handler runs)
    session_state,\* per session: st.session_state, [authenticated, login_time,
                  \* failed_attempts, last_attempt_time]
    pc,           \* per session: the position of its script run, or the page
                  \* its last run ended with
                  \* (slide_master_3000.py, main and view_presentation)
    pres,         \* per session: presentation_name of the running view action
    token,        \* per session: local `token` of _generate_presentation_token
    expiry,       \* per session: local `expiry`
    token_data,   \* per session: local `token_data`
    tokens,       \* per session: local `tokens` (the loaded and merged dict)
    slidev_url,   \* per session: the token inside the URL shown, "" when none
    written,      \* history: the tokens whose json.dump and close completed
    views,        \* number of view actions started so far
    view,         \* per session: the ordinal of its view action, 0 before the first
    proc,         \* per process: "none", "starting", "bound", "dead"
    pid,          \* per session: local `pid` of _stop_slidev
    content       \* the served directory: [slides, assets, root], root being
                  \* the files of the working directory besides slides.md

vars == <<now, tokens_file, resp, conn, session_state, pc, pres, token, expiry, token_data, tokens,
          slidev_url, written, views, view, proc, pid, content>>

issuerVars == <<token, expiry, token_data, tokens, slidev_url, written>>
supVars == <<proc, pid, content>>

----------------------------------------------------------------------------
(* Bounds of the model *)

\* view actions (token issuances) started in one behaviour
MaxViews == 2
\* clock advances in one behaviour
MaxTicks == 2

(* Program constants *)

\* slide_master_3000.py:380, the grant's lifetime in seconds
TTL == 36000

Sessions == {"s1", "s2"}
Presentations == {"A", "B"}
\* the presentation in each session's selectbox
Selected == [s \in Sessions |-> IF s = "s1" THEN "A" ELSE "B"]
\* presentation["assets"], by file name
Assets == [p \in Presentations |-> IF p = "A" THEN {"a.png"} ELSE {"b.png"}]

\* secrets.token_urlsafe(32): the draw of the k-th view action; draws
\* never repeat
TokenPool == <<"t1", "t2", "t3", "t4">>
\* a string no draw returns
Forged == "zz"

\* values of access_token in a query string, in order of appearance;
\* <<>> is a query without the parameter
Queries == {<<>>, <<"">>, <<"t1">>, <<Forged>>, <<"", "t1">>}

EmptyDict == [t \in {} |-> 0]
NoResp == [method |-> "none", query |-> <<>>, path |-> <<>>, status |-> 0,
           static |-> FALSE, file |-> <<>>, body |-> "", log |-> {}]

\* client connections to the gate
Conns == {"c1", "c2"}

\* the directory the gate runs in, the files of the machine, and the paths
\* requested, all as sequences of path components
Root == <<"srv">>
Files == {<<"srv", "slides.md">>, <<"etc", "passwd">>}
Index == <<"slides.md">>
Paths == {Index, <<"..", "..", "etc", "passwd">>, <<"assets", "..", "slides.md">>,
          <<"etc", "passwd">>}

\* a value of "expires" that is not a JSON number (a string, null, a list)
NotANumber == -2
\* the None of _find_process_using_port
NoProc == -1

----------------------------------------------------------------------------
(* Token store: slidev_auth.py *)

\* json.load of the file succeeds iff it holds a complete JSON document
Parseable(f) == f.kind = "json"

\* get_valid_tokens: the dict in the file; {} when the file is missing
\* (line 31) or reading it raises (line 34)
get_valid_tokens(f) == IF Parseable(f) THEN f.data ELSE EmptyDict

\* urllib.parse.parse_qs drops blank values (keep_blank_values=False);
\* params.get('access_token', [''])[0] takes the first one left
NonBlank(v) == v # ""
ParseToken(q) ==
    LET vals == SelectSeq(q, NonBlank)
    IN IF vals = <<>> THEN "" ELSE Head(vals)

_validate_token_nomembership(tok, f, current_time) ==
    IF tok = "" THEN FALSE
    ELSE LET toks == get_valid_tokens(f)
         IN IF tok \notin DOMAIN toks THEN TRUE
            ELSE ~("expires" \notin DOMAIN toks[tok] \/ toks[tok].expires < current_time)

_validate_token_emptyok(tok, f, current_time) ==
    IF tok = "" THEN TRUE
    ELSE LET toks == get_valid_tokens(f)
         IN IF tok \notin DOMAIN toks THEN FALSE
            ELSE ~("expires" \notin DOMAIN toks[tok] \/ toks[tok].expires < current_time)

_validate_token_strict(tok, f, current_time) ==
    IF tok = "" THEN FALSE
    ELSE LET toks == get_valid_tokens(f)
         IN IF tok \notin DOMAIN toks THEN FALSE
            ELSE ~("expires" \notin DOMAIN toks[tok] \/ toks[tok].expires <= current_time)

\* TokenAuthHandler._validate_token, lines 70-99
_validate_token(tok, f, current_time) ==
    IF tok = "" THEN FALSE
    ELSE LET toks == get_valid_tokens(f)
         IN IF tok \notin DOMAIN toks THEN FALSE
            ELSE LET td == toks[tok]
                 IN IF "expires" \notin DOMAIN td \/ td.expires < current_time
                    THEN FALSE
                    ELSE TRUE

\* line 94 raises TypeError when the record has an "expires" that does not
\* compare with a float
_validate_token_raises(tok, f) ==
    /\ tok # ""
    /\ tok \in DOMAIN get_valid_tokens(f)
    /\ "expires" \in DOMAIN get_valid_tokens(f)[tok]
    /\ get_valid_tokens(f)[tok].expires = NotANumber

\* posixpath.normpath of an absolute path, and the resolution of ".." when
\* a path is opened: "" and "." are dropped, ".." drops the component
\* before it and is dropped itself at the top
RECURSIVE NormInto(_, _)
NormInto(done, rest) ==
    IF rest = <<>> THEN done
    ELSE LET c == Head(rest)
         IN IF c \in {"", "."} THEN NormInto(done, Tail(rest))
            ELSE IF c = ".."
                 THEN NormInto(IF done = <<>> THEN done
                               ELSE SubSeq(done, 1, Len(done) - 1), Tail(rest))
                 ELSE NormInto(Append(done, c), Tail(rest))
Normalize(p) == NormInto(<<>>, p)

\* SimpleHTTPRequestHandler.translate_path: the normalised request path,
\* joined to the working directory
translate_path(path) == Root \o Normalize(path)

ServedFile_rawjoin(path) ==
    LET f == Normalize(Root \o path)
    IN IF f \in Files THEN f ELSE <<>>

\* line 68, super().do_GET(): the file at translate_path(self.path) is
\* opened and sent; <<>> when there is none (404)
ServedFile(path) ==
    LET f == Normalize(translate_path(path))
    IN IF f \in Files THEN f ELSE <<>>

\* log records, [site, text]: text holds the access_token values of the
\* request URL when the message has the URL in it, <<>> otherwise
LogValidate == [site |-> "_validate_token", text |-> <<>>]
LogDenied(q) == [site |-> "do_GET", text |-> q]
LogRequest(q) == [site |-> "log_message", text |-> q]

DeniedBody == "Access Denied: Valid token required"

\* TokenAuthHandler.do_GET, lines 41-68: 403 and return, or the inherited
\* static file serving; a TypeError of _validate_token ends the handler
\* with no response (status 0). send_response logs the request line
\* through log_message (lines 101-105)
do_GET(q, path) ==
    LET tok == ParseToken(q)
        new == [NoResp EXCEPT !.method = "GET", !.query = q, !.path = path]
    IN IF _validate_token_raises(tok, tokens_file)
       THEN [new EXCEPT !.log = {LogValidate}]
       ELSE IF ~_validate_token(tok, tokens_file, now)
       THEN [new EXCEPT !.status = 403, !.body = DeniedBody,
                        !.log = {LogValidate, LogDenied(q), LogRequest(q)}]
       ELSE [new EXCEPT !.status = IF ServedFile(path) = <<>> THEN 404 ELSE 200,
                        !.static = TRUE, !.file = ServedFile(path),
                        !.log = {LogValidate, LogRequest(q)}]

\* TokenAuthHandler does not override do_HEAD: a HEAD request runs
\* SimpleHTTPRequestHandler.do_HEAD, which sends the file's headers
do_HEAD(q, path) ==
    [NoResp EXCEPT !.method = "HEAD", !.query = q, !.path = path,
                   !.status = IF ServedFile(path) = <<>> THEN 404 ELSE 200,
                   !.static = TRUE, !.file = ServedFile(path),
                   !.log = {LogRequest(q)}]

\* one GET request handled by the gate
HandleGET ==
    /\ \E q \in Queries : resp' = do_GET(q, Index)
    /\ UNCHANGED <<conn, session_state>>
    /\ UNCHANGED <<now, tokens_file, pc, pres, views, view>>
    /\ UNCHANGED issuerVars
    /\ UNCHANGED supVars

\* one HEAD request handled by the gate
HandleHEAD ==
    /\ \E q \in Queries : resp' = do_HEAD(q, Index)
    /\ UNCHANGED <<conn, session_state>>
    /\ UNCHANGED <<now, tokens_file, pc, pres, views, view>>
    /\ UNCHANGED issuerVars
    /\ UNCHANGED supVars

\* a client connects: the kernel completes the handshake and queues the
\* connection on the listening socket
Connect(c) ==
    /\ conn[c] = "closed"
    /\ conn' = [conn EXCEPT ![c] = "connected"]
    /\ UNCHANGED session_state
    /\ UNCHANGED <<now, tokens_file, resp, pc, pres, views, view>>
    /\ UNCHANGED issuerVars
    /\ UNCHANGED supVars

\* run_server, lines 114 and 119: socketserver.TCPServer.serve_forever
\* accepts a connection and runs its handler to the end in the same
\* thread, before it accepts the next one
Accept(c) ==
    /\ conn[c] = "connected"
    /\ \A o \in Conns : conn[o] # "accepted"
    /\ conn' = [conn EXCEPT ![c] = "accepted"]
    /\ UNCHANGED session_state
    /\ UNCHANGED <<now, tokens_file, resp, pc, pres, views, view>>
    /\ UNCHANGED issuerVars
    /\ UNCHANGED supVars

\* the handler reads the request, answers it and the connection is closed
Respond(c) ==
    /\ conn[c] = "accepted"
    /\ \E q \in Queries, path \in Paths :
          resp' = do_GET(q, path) \/ resp' = do_HEAD(q, path)
    /\ conn' = [conn EXCEPT ![c] = "closed"]
    /\ UNCHANGED session_state
    /\ UNCHANGED <<now, tokens_file, pc, pres, views, view>>
    /\ UNCHANGED issuerVars
    /\ UNCHANGED supVars

\* the clock advances, by a second or by a grant's lifetime
Ticks == (now % TTL) + (now \div TTL)
Tick ==
    /\ Ticks < MaxTicks
    /\ \E d \in {1, TTL} : now' = now + d
    /\ UNCHANGED <<tokens_file, resp, conn, session_state, pc, pres, views, view>>
    /\ UNCHANGED issuerVars
    /\ UNCHANGED supVars

----------------------------------------------------------------------------
(* Token issuer: slide_master_3000.py, _generate_presentation_token *)

\* tokens[token] = token_data, line 403
DictSet(d, k, v) == [x \in DOMAIN d \cup {k} |-> IF x = k THEN v ELSE d[x]]

\* where a script run ends: no run yet, the URL shown, an exception, the
\* lockout message, the login form after a refused password, the login
\* form, the presentation list
Resting == {"idle", "shown", "raised", "locked", "invalid", "login", "list"}

\* lines 376-380: token = secrets.token_urlsafe(32); expiry = int(time.time()) + 36000
TokenGen(s) ==
    /\ pc[s] = "gen"
    /\ token' = [token EXCEPT ![s] = TokenPool[view[s]]]
    /\ expiry' = [expiry EXCEPT ![s] = now + TTL]
    /\ pc' = [pc EXCEPT ![s] = "stamp"]
    /\ UNCHANGED <<now, tokens_file, resp, conn, session_state, pres, views, view, token_data, tokens,
                   slidev_url, written>>
    /\ UNCHANGED supVars

\* lines 383-388: token_data, with the second read of the clock
TokenStamp(s) ==
    /\ pc[s] = "stamp"
    /\ token_data' = [token_data EXCEPT ![s] =
                         [presentation |-> pres[s], created |-> now,
                          expires |-> expiry[s], user |-> "unknown"]]
    /\ pc' = [pc EXCEPT ![s] = "load"]
    /\ UNCHANGED <<now, tokens_file, resp, conn, session_state, pres, views, view, token, expiry, tokens,
                   slidev_url, written>>
    /\ UNCHANGED supVars

\* lines 390-400: the dict in the file; {} when the file is missing
\* (line 397) or reading it raises (line 400)
LoadExisting(f) == IF f.kind = "json" THEN f.data ELSE EmptyDict

\* lines 390-403: load the file, add the grant
TokenLoad(s) ==
    /\ pc[s] = "load"
    /\ tokens' = [tokens EXCEPT ![s] =
                     DictSet(LoadExisting(tokens_file), token[s], token_data[s])]
    /\ pc' = [pc EXCEPT ![s] = "open"]
    /\ UNCHANGED <<now, tokens_file, resp, conn, session_state, pres, views, view, token, expiry, token_data,
                   slidev_url, written>>
    /\ UNCHANGED supVars

\* where an exception leaves the script run: nothing after the raise runs
Raise(s) == [pc EXCEPT ![s] = "raised"]

\* the locals of _generate_presentation_token are gone when it returns or raises
DropLocals(s) ==
    /\ expiry' = [expiry EXCEPT ![s] = 0]
    /\ token_data' = [token_data EXCEPT ![s] = EmptyDict]
    /\ tokens' = [tokens EXCEPT ![s] = EmptyDict]

\* lines 406-407: open(tokens_file, "w") truncates the file, or raises OSError
TokenOpen(s) ==
    /\ pc[s] = "open"
    /\ \/ /\ tokens_file' = [kind |-> "empty", data |-> EmptyDict]
          /\ pc' = [pc EXCEPT ![s] = "dump"]
          /\ UNCHANGED <<expiry, token_data, tokens>>
       \/ /\ pc' = Raise(s)
          /\ DropLocals(s)
          /\ UNCHANGED tokens_file
    /\ UNCHANGED <<now, resp, conn, session_state, pres, views, view, token, slidev_url, written>>
    /\ UNCHANGED supVars

\* the position after a failed json.dump
DumpFailed_swallowed(s) == [pc EXCEPT ![s] = "url"]

DumpFailed(s) == Raise(s)

\* line 408 and the end of the with block: json.dump and close write the
\* whole dict, or the write raises and leaves a partial document
TokenDump(s) ==
    /\ pc[s] = "dump"
    /\ \/ /\ tokens_file' = [kind |-> "json", data |-> tokens[s]]
          /\ written' = written \cup {token[s]}
          /\ pc' = [pc EXCEPT ![s] = "url"]
       \/ /\ tokens_file' = [kind |-> "garbage", data |-> EmptyDict]
          /\ pc' = DumpFailed(s)
          /\ UNCHANGED written
    /\ DropLocals(s)
    /\ UNCHANGED <<now, resp, conn, session_state, pres, views, view, token, slidev_url>>
    /\ UNCHANGED supVars

\* view_presentation, lines 427-453: the URL with the returned token is
\* logged and shown
ViewUrl(s) ==
    /\ pc[s] = "url"
    /\ slidev_url' = [slidev_url EXCEPT ![s] = token[s]]
    /\ pc' = [pc EXCEPT ![s] = "shown"]
    /\ UNCHANGED <<now, tokens_file, resp, conn, session_state, pres, views, view, token, expiry, token_data,
                   tokens, written>>
    /\ UNCHANGED supVars

\* a script run starts a view action: the session's state of the previous
\* run is gone
NewRun(s) ==
    /\ pc[s] \in Resting
    /\ views < MaxViews
    /\ views' = views + 1
    /\ view' = [view EXCEPT ![s] = views + 1]
    /\ pres' = [pres EXCEPT ![s] = Selected[s]]
    /\ token' = [token EXCEPT ![s] = ""]
    /\ expiry' = [expiry EXCEPT ![s] = 0]
    /\ token_data' = [token_data EXCEPT ![s] = EmptyDict]
    /\ tokens' = [tokens EXCEPT ![s] = EmptyDict]
    /\ slidev_url' = [slidev_url EXCEPT ![s] = ""]
    /\ pid' = [pid EXCEPT ![s] = NoProc]

\* view_presentation entered at line 427: _build_slidev has returned
BuildReturned(s) ==
    /\ NewRun(s)
    /\ pc' = [pc EXCEPT ![s] = "gen"]
    /\ UNCHANGED <<now, tokens_file, resp, conn, session_state, written, proc, content>>

Issuer(s) ==
    \/ TokenGen(s)
    \/ TokenStamp(s)
    \/ TokenLoad(s)
    \/ TokenOpen(s)
    \/ TokenDump(s)
    \/ ViewUrl(s)

----------------------------------------------------------------------------
(* Login: slide_master_3000.py, authenticate and main *)

\* line 159, line 166 and line 164
SessionTimeout == 1800
LockoutSeconds == 60
MaxAttempts == 5
\* the None of login_time (line 151); time.time() itself is never 0, the
\* instant 0 of the model is the time the program starts
NoTime == -1

\* lines 148-155
InitialSession ==
    [authenticated |-> FALSE, login_time |-> NoTime,
     failed_attempts |-> 0, last_attempt_time |-> 0]

\* what the browser sends with a rerun: nothing, Login pressed with a
\* password that _is_valid_hash accepts or refuses, Login pressed when the
\* password file cannot be read, Show Presentation
Inputs == {"none", "login_ok", "login_bad", "login_raises", "show"}

TimedOut_minutes(ss, t) ==
    ss.authenticated /\ ss.login_time # NoTime /\ t - ss.login_time > SessionTimeout * 60

\* lines 158-159
TimedOut(ss, t) ==
    ss.authenticated /\ ss.login_time # NoTime /\ t - ss.login_time > SessionTimeout

AtLimit_gt(ss) == ss.failed_attempts > MaxAttempts

\* line 164
AtLimit(ss) == ss.failed_attempts >= MaxAttempts

\* authenticate, lines 141-186, the clock read as t: the session state it
\* leaves and the page the run shows; "locked" and "invalid" end in
\* st.stop(), "raised" in the exception of _get_hashed_passwords
authenticate(ss, t, input) ==
    LET s1 == IF TimedOut(ss, t) THEN [ss EXCEPT !.authenticated = FALSE] ELSE ss
    IN IF AtLimit(s1) /\ t - s1.last_attempt_time < LockoutSeconds
       THEN [state |-> s1, page |-> "locked"]
       ELSE LET s2 == IF AtLimit(s1) THEN [s1 EXCEPT !.failed_attempts = 0] ELSE s1
            IN IF s2.authenticated THEN [state |-> s2, page |-> "list"]
               ELSE IF input = "login_ok"
               THEN [state |-> [s2 EXCEPT !.last_attempt_time = t,
                                          !.authenticated = TRUE,
                                          !.login_time = t,
                                          !.failed_attempts = 0],
                     page |-> "list"]
               ELSE IF input = "login_bad"
               THEN [state |-> [s2 EXCEPT !.last_attempt_time = t,
                                          !.failed_attempts = @ + 1],
                     page |-> "invalid"]
               ELSE IF input = "login_raises"
               THEN [state |-> [s2 EXCEPT !.last_attempt_time = t], page |-> "raised"]
               ELSE [state |-> s2, page |-> "login"]

\* main, lines 457-481: one script run. authenticate, then, when the
\* session is authenticated, the list, and view_presentation when Show
\* Presentation was pressed (entered at line 427 as in BuildReturned)
MainRun(s) ==
    /\ pc[s] \in Resting
    /\ \E input \in Inputs :
          LET r == authenticate(session_state[s], now, input)
          IN /\ session_state' = [session_state EXCEPT ![s] = r.state]
             /\ IF r.page = "list" /\ input = "show"
                THEN /\ NewRun(s)
                     /\ pc' = [pc EXCEPT ![s] = "gen"]
                ELSE /\ pc' = [pc EXCEPT ![s] = r.page]
                     /\ slidev_url' = [slidev_url EXCEPT ![s] = ""]
                     /\ UNCHANGED <<views, view, pres, token, expiry, token_data,
                                    tokens, pid>>
    /\ UNCHANGED <<now, tokens_file, resp, conn, written, proc, content>>

\* the instants at which the login model looks at the clock
Instants ==
    {0, 1, LockoutSeconds - 1, LockoutSeconds, SessionTimeout, SessionTimeout + 1}

\* the clock moves on to a later instant
ClockTo ==
    /\ \E t \in Instants : t > now /\ now' = t
    /\ UNCHANGED <<tokens_file, resp, conn, session_state, pc, pres, views, view>>
    /\ UNCHANGED issuerVars
    /\ UNCHANGED supVars

----------------------------------------------------------------------------
(* Process supervision and the view action: slide_master_3000.py *)

Procs == 0..MaxViews
\* a process that has a connection to port 3030 and does not listen on
\* it: a browser, a reverse proxy
Client == MaxViews + 1
AllProcs == Procs \cup {Client}
\* the process found on the port that no view action of this model
\* launched: an earlier run's, or another user's
Stale == 0

\* _is_port_in_use, lines 234-245: a connection to localhost:3030 succeeds
_is_port_in_use == \E p \in Procs : proc[p] = "bound"

\* the process listening on port 3030, NoProc when none
Listener == IF _is_port_in_use THEN CHOOSE p \in Procs : proc[p] = "bound" ELSE NoProc

\* view_presentation is entered (line 412) and _build_slidev starts
ViewStart(s) ==
    /\ NewRun(s)
    /\ pc' = [pc EXCEPT ![s] = "cache"]
    /\ UNCHANGED <<now, tokens_file, resp, conn, session_state, written, proc, content>>

\* _cache_presentation, lines 225-229: slides.md and assets are removed
CacheClear(s) ==
    /\ pc[s] = "cache"
    /\ content' = [content EXCEPT !.slides = "none", !.assets = {}]
    /\ pc' = [pc EXCEPT ![s] = "download"]
    /\ UNCHANGED <<now, tokens_file, resp, conn, session_state, pres, views, view, proc, pid>>
    /\ UNCHANGED issuerVars

\* _cache_presentation, lines 230-232, with _download_from_github, lines
\* 190-215: a download that is not answered 200 writes no file and raises
\* nothing; a request that raises ends the build (lines 359-361)
CacheDownload(s) ==
    /\ pc[s] = "download"
    /\ \/ /\ \E sl \in {"none", pres[s]}, as \in SUBSET Assets[pres[s]] :
                content' = [content EXCEPT !.slides = sl,
                                           !.assets = content.assets \cup as]
          /\ pc' = [pc EXCEPT ![s] = "stop"]
       \/ /\ \E sl \in {content.slides, pres[s]} :
                content' = [content EXCEPT !.slides = sl]
          /\ pc' = Raise(s)
    /\ UNCHANGED <<now, tokens_file, resp, conn, session_state, pres, views, view, proc, pid>>
    /\ UNCHANGED issuerVars

\* _start_slidev calls _stop_slidev; line 312: nothing is done when the
\* port is free
StopCheck(s) ==
    /\ pc[s] = "stop"
    /\ pc' = [pc EXCEPT ![s] = IF _is_port_in_use THEN "find" ELSE "popen"]
    /\ UNCHANGED <<now, tokens_file, resp, conn, session_state, pres, views, view>>
    /\ UNCHANGED issuerVars
    /\ UNCHANGED supVars

\* _find_process_using_port, lines 283-303: the PID of the first line of
\* lsof's output, None when lsof fails or lists nothing
PortUsers == {p \in AllProcs : proc[p] \in {"bound", "client"}}

\* lsof -i :3030 lists every process with a socket on the port, listening
\* or connected, in the order of their PIDs, which is any order
LsofOutputs ==
    {o \in [1..Cardinality(PortUsers) -> PortUsers] :
        \A i, j \in DOMAIN o : o[i] = o[j] => i = j}

\* _extract_pid, lines 264-281: the PID of the first line after the header
_extract_pid(lines) == IF DOMAIN lines = {} THEN NoProc ELSE lines[1]

LsofResults == {NoProc} \cup {_extract_pid(o) : o \in LsofOutputs}

\* line 316: pid = _find_process_using_port(3030)
StopFind(s) ==
    /\ pc[s] = "find"
    /\ \E r \in LsofResults : pid' = [pid EXCEPT ![s] = r]
    /\ pc' = [pc EXCEPT ![s] = "kill"]
    /\ UNCHANGED <<now, tokens_file, resp, conn, session_state, pres, views, view, proc, content>>
    /\ UNCHANGED issuerVars

\* os.kill succeeds on a live process of the same user; the stale process
\* may be another user's (PermissionError), a dead one raises
\* ProcessLookupError
Alive(p) == proc[p] \in {"starting", "bound"}
Running(p) == Alive(p) \/ proc[p] = "client"
KillOutcomes(p) ==
    IF ~Running(p) THEN {FALSE}
    ELSE IF p \in {Stale, Client} THEN {TRUE, FALSE} ELSE {TRUE}

\* lines 317-322: if pid: os.kill(pid, SIGKILL), an OSError is logged
StopKill(s) ==
    /\ pc[s] = "kill"
    /\ IF pid[s] # NoProc
       THEN \E ok \in KillOutcomes(pid[s]) :
                proc' = IF ok THEN [proc EXCEPT ![pid[s]] = "dead"] ELSE proc
       ELSE UNCHANGED proc
    /\ pc' = [pc EXCEPT ![s] = "pkill"]
    /\ UNCHANGED <<now, tokens_file, resp, conn, session_state, pres, views, view, pid, content>>
    /\ UNCHANGED issuerVars

\* lines 324-337: pkill -f 'python -m http.server 3030' ends the listener
\* when its command line matches and the signal is permitted, then
\* time.sleep(1); _stop_slidev returns without looking at the port again
StopPkill(s) ==
    /\ pc[s] = "pkill"
    /\ \/ UNCHANGED proc
       \/ /\ _is_port_in_use
          /\ TRUE \in KillOutcomes(Listener)
          /\ proc' = [proc EXCEPT ![Listener] = "dead"]
    /\ pc' = [pc EXCEPT ![s] = "popen"]
    /\ UNCHANGED <<now, tokens_file, resp, conn, session_state, pres, views, view, pid, content>>
    /\ UNCHANGED issuerVars

\* _start_slidev, lines 256-262: Popen of build_and_serve.sh, detached
StartPopen(s) ==
    /\ pc[s] = "popen"
    /\ proc' = [proc EXCEPT ![view[s]] = "starting"]
    /\ pc' = [pc EXCEPT ![s] = "wait"]
    /\ UNCHANGED <<now, tokens_file, resp, conn, session_state, pres, views, view, pid, content>>
    /\ UNCHANGED issuerVars

\* _build_slidev, lines 353-357: the loop ends when a connection to the
\* port succeeds; until then it sleeps and looks again
BuildWait(s) ==
    /\ pc[s] = "wait"
    /\ _is_port_in_use
    /\ pc' = [pc EXCEPT ![s] = "gen"]
    /\ UNCHANGED <<now, tokens_file, resp, conn, session_state, pres, views, view>>
    /\ UNCHANGED issuerVars
    /\ UNCHANGED supVars

\* a launched process binds port 3030 when the port is free
ProcBind(p) ==
    /\ proc[p] = "starting"
    /\ ~_is_port_in_use
    /\ proc' = [proc EXCEPT ![p] = "bound"]
    /\ UNCHANGED <<now, tokens_file, resp, conn, session_state, pc, pres, views, view, pid, content>>
    /\ UNCHANGED issuerVars

\* a launched process ends without binding: the build fails, or the port
\* is taken
ProcExit(p) ==
    /\ proc[p] = "starting"
    /\ proc' = [proc EXCEPT ![p] = "dead"]
    /\ UNCHANGED <<now, tokens_file, resp, conn, session_state, pc, pres, views, view, pid, content>>
    /\ UNCHANGED issuerVars

\* a view action that starts when no other is running
SeqViewStart(s) ==
    /\ \A o \in Sessions : pc[o] \in Resting
    /\ ViewStart(s)

\* _build_slidev, from _cache_presentation to the end of the wait
Build(s) ==
    \/ CacheClear(s)
    \/ CacheDownload(s)
    \/ StopCheck(s)
    \/ StopFind(s)
    \/ StopKill(s)
    \/ StopPkill(s)
    \/ StartPopen(s)
    \/ BuildWait(s)

Supervisor(s) ==
    \/ ViewStart(s)
    \/ Build(s)

----------------------------------------------------------------------------
(* The view action of slidev_viewer.py: no token, Slidev in an iframe *)

\* a view action starts when no other is running: view actions that
\* follow one another, each for the presentation its session selected
ViewerStart(s) ==
    /\ \A o \in Sessions : pc[o] \in Resting
    /\ NewRun(s)
    /\ pc' = [pc EXCEPT ![s] = "cache"]
    /\ UNCHANGED <<now, tokens_file, resp, conn, session_state, written, proc, content>>

\* _cache_presentation, lines 168-172: ./slides.md and ./assets are removed
ViewerCacheClear(s) ==
    /\ pc[s] = "cache"
    /\ content' = [content EXCEPT !.slides = "none", !.assets = {}]
    /\ pc' = [pc EXCEPT ![s] = "download"]
    /\ UNCHANGED <<now, tokens_file, resp, conn, session_state, pres, views, view, proc, pid>>
    /\ UNCHANGED issuerVars

\* _cache_presentation, lines 173-175, with _download_from_github, lines
\* 133-158: the file is written to file_path.split("/")[-1] in the working
\* directory, whatever local_filename says (line 154); a download that is
\* not answered 200 writes nothing, a request that raises ends the build
ViewerCacheDownload(s) ==
    /\ pc[s] = "download"
    /\ \/ /\ \E sl \in {"none", pres[s]}, as \in SUBSET Assets[pres[s]] :
                content' = [content EXCEPT !.slides = sl,
                                           !.root = content.root \cup as]
          /\ pc' = [pc EXCEPT ![s] = "stop"]
       \/ /\ \E sl \in {content.slides, pres[s]} :
                content' = [content EXCEPT !.slides = sl]
          /\ pc' = Raise(s)
    /\ UNCHANGED <<now, tokens_file, resp, conn, session_state, pres, views, view, proc, pid>>
    /\ UNCHANGED issuerVars

\* _stop_slidev, line 253: while _is_port_in_use(3030)
ViewerStopCheck(s) ==
    /\ pc[s] = "stop"
    /\ pc' = [pc EXCEPT ![s] = IF _is_port_in_use THEN "find" ELSE "popen"]
    /\ UNCHANGED <<now, tokens_file, resp, conn, session_state, pres, views, view>>
    /\ UNCHANGED issuerVars
    /\ UNCHANGED supVars

\* line 254: pid = _find_process_using_port(3030)
ViewerStopFind(s) ==
    /\ pc[s] = "find"
    /\ \E r \in LsofResults : pid' = [pid EXCEPT ![s] = r]
    /\ pc' = [pc EXCEPT ![s] = "kill"]
    /\ UNCHANGED <<now, tokens_file, resp, conn, session_state, pres, views, view, proc, content>>
    /\ UNCHANGED issuerVars

\* lines 255-257: if pid: os.kill(pid, SIGKILL), outside any try: an
\* OSError ends the build (lines 281-283); then time.sleep(0.5) and the
\* port is looked at again
ViewerStopKill(s) ==
    /\ pc[s] = "kill"
    /\ IF pid[s] # NoProc
       THEN \E ok \in KillOutcomes(pid[s]) :
                IF ok
                THEN /\ proc' = [proc EXCEPT ![pid[s]] = "dead"]
                     /\ pc' = [pc EXCEPT ![s] = "stop"]
                ELSE /\ pc' = Raise(s)
                     /\ UNCHANGED proc
       ELSE /\ pc' = [pc EXCEPT ![s] = "stop"]
            /\ UNCHANGED proc
    /\ UNCHANGED <<now, tokens_file, resp, conn, session_state, pres, views, view, pid, content>>
    /\ UNCHANGED issuerVars

\* _start_slidev, lines 197-202: Popen of npx slidev --remote in the
\* working directory
ViewerPopen(s) ==
    /\ pc[s] = "popen"
    /\ proc' = [proc EXCEPT ![view[s]] = "starting"]
    /\ pc' = [pc EXCEPT ![s] = "wait"]
    /\ UNCHANGED <<now, tokens_file, resp, conn, session_state, pres, views, view, pid, content>>
    /\ UNCHANGED issuerVars

\* _build_slidev, lines 277-280, then view_presentation, lines 293-322:
\* the loop ends when a connection to the port succeeds, and the iframe
\* is rendered
ViewerWait(s) ==
    /\ pc[s] = "wait"
    /\ _is_port_in_use
    /\ pc' = [pc EXCEPT ![s] = "shown"]
    /\ UNCHANGED <<now, tokens_file, resp, conn, session_state, pres, views, view>>
    /\ UNCHANGED issuerVars
    /\ UNCHANGED supVars

\* the process bound to the port ends by itself, or is ended from outside
ProcDie(p) ==
    /\ proc[p] = "bound"
    /\ proc' = [proc EXCEPT ![p] = "dead"]
    /\ UNCHANGED <<now, tokens_file, resp, conn, session_state, pc, pres, views, view, pid, content>>
    /\ UNCHANGED issuerVars

Viewer(s) ==
    \/ ViewerStart(s)
    \/ ViewerCacheClear(s)
    \/ ViewerCacheDownload(s)
    \/ ViewerStopCheck(s)
    \/ ViewerStopFind(s)
    \/ ViewerStopKill(s)
    \/ ViewerPopen(s)
    \/ ViewerWait(s)

----------------------------------------------------------------------------
(* Initial states *)

InitFiles ==
    { [kind |-> "missing", data |-> EmptyDict],
      [kind |-> "garbage", data |-> EmptyDict],
      [kind |-> "json", data |-> EmptyDict] }

\* the state both programs start from, but for the tokens file and the port
InitRest ==
    /\ now = 0
    /\ resp = NoResp
    /\ conn = [c \in Conns |-> "closed"]
    /\ session_state = [s \in Sessions |-> InitialSession]
    /\ pc = [s \in Sessions |-> "idle"]
    /\ pres = [s \in Sessions |-> "A"]
    /\ token = [s \in Sessions |-> ""]
    /\ expiry = [s \in Sessions |-> 0]
    /\ token_data = [s \in Sessions |-> EmptyDict]
    /\ tokens = [s \in Sessions |-> EmptyDict]
    /\ slidev_url = [s \in Sessions |-> ""]
    /\ written = {}
    /\ views = 0
    /\ view = [s \in Sessions |-> 0]
    /\ pid = [s \in Sessions |-> NoProc]
    /\ content = [slides |-> "none", assets |-> {}, root |-> {}]

InitState ==
    /\ InitRest
    /\ tokens_file \in InitFiles

Init ==
    /\ InitState
    /\ proc = [p \in AllProcs |-> "none"]

\* port 3030 is free, or held by a process that was there before
InitView ==
    /\ InitState
    /\ \E st \in {"none", "bound"} :
          proc = [p \in AllProcs |-> IF p = Stale THEN st ELSE "none"]

\* port 3030 is held by a process that was there before, and another
\* process has a connection to it
InitClient ==
    /\ InitState
    /\ proc = [p \in AllProcs |-> IF p = Stale THEN "bound"
                                  ELSE IF p = Client THEN "client" ELSE "none"]

\* a grant as _generate_presentation_token writes it, and records of a
\* file edited by hand: one without "expires", one whose "expires" is not
\* a number
GoodGrant == [presentation |-> "A", created |-> 0, expires |-> TTL, user |-> "unknown"]
NoExpires == [presentation |-> "A", created |-> 0, user |-> "unknown"]
BadExpires == [GoodGrant EXCEPT !.expires = NotANumber]
StoredFiles ==
    InitFiles \cup { [kind |-> "json", data |-> [t \in {"t1"} |-> g]] :
                        g \in {GoodGrant, NoExpires, BadExpires} }

\* the gate alone, on a tokens file written earlier
InitServer ==
    /\ InitRest
    /\ tokens_file \in StoredFiles
    /\ proc = [p \in AllProcs |-> "none"]

Next ==
    \/ BuildReturned("s1")
    \/ Issuer("s1")
    \/ HandleGET
    \/ HandleHEAD
    \/ Tick

Spec == Init /\ [][Next]_vars

NextIssue ==
    \/ \E s \in Sessions : BuildReturned(s)
    \/ \E s \in Sessions : Issuer(s)
    \/ Tick

SpecIssue == Init /\ [][NextIssue]_vars

NextView ==
    \/ Supervisor("s1")
    \/ Issuer("s1")
    \/ \E p \in Procs : ProcBind(p)
    \/ \E p \in Procs : ProcExit(p)

SpecView == InitView /\ [][NextView]_vars

\* view actions of the sessions, one after another, and the gate
NextServe ==
    \/ \E s \in Sessions : SeqViewStart(s)
    \/ \E s \in Sessions : Build(s)
    \/ \E s \in Sessions : Issuer(s)
    \/ \E p \in Procs : ProcBind(p)
    \/ \E p \in Procs : ProcExit(p)
    \/ HandleGET

SpecServe == Init /\ [][NextServe]_vars

\* login, timeout and lockout of one session, with the token issuance
\* its view actions run
NextLogin ==
    \/ MainRun("s1")
    \/ Issuer("s1")
    \/ ClockTo

SpecLogin == Init /\ [][NextLogin]_vars

\* the view action on a port that has a listener and a client
SpecLsof == InitClient /\ [][NextView]_vars

\* the view actions of the sessions, concurrently
NextViews ==
    \/ \E s \in Sessions : Supervisor(s)
    \/ \E s \in Sessions : Issuer(s)
    \/ \E p \in Procs : ProcBind(p)
    \/ \E p \in Procs : ProcExit(p)

SpecViews == Init /\ [][NextViews]_vars

NextServer ==
    \/ \E c \in Conns : Connect(c)
    \/ \E c \in Conns : Accept(c)
    \/ \E c \in Conns : Respond(c)
    \/ Tick

SpecServer == InitServer /\ [][NextServer]_vars

NextViewer ==
    \/ \E s \in Sessions : Viewer(s)
    \/ \E p \in Procs : ProcBind(p)
    \/ \E p \in Procs : ProcExit(p)
    \/ \E p \in Procs : ProcDie(p)

SpecViewer == InitView /\ [][NextViewer]_vars

\* the script thread keeps running and the launched processes keep going:
\* a step that stays possible is taken
SpecViewFair == SpecView /\ WF_vars(NextView)

----------------------------------------------------------------------------
(* The claims *)

\* the keys of the persisted store: those of the JSON object in the file
StoreKeys == IF tokens_file.kind = "json" THEN DOMAIN tokens_file.data ELSE {}
Grant(t) == tokens_file.data[t]

\* every string a request can carry as its token
AnyToken == {TokenPool[i] : i \in 1..Len(TokenPool)} \cup {Forged, ""}

\* a query string with no access_token parameter, or only empty ones
NoTokenIn(q) == \A i \in 1..Len(q) : q[i] = ""

\* the step is a request answered by the gate
Answered == resp' # resp

\* C1: a response other than 403, to a request of any method, is produced
\* only for a request whose access_token is a key of the store and whose
\* grant has not expired at the time of the request.
C1_EveryMethodGated ==
    [][Answered /\ resp'.status # 403 =>
          LET t == ParseToken(resp'.query)
          IN t \in StoreKeys /\ ~(Grant(t).expires < now)]_vars

\* C2: a GET request without an access_token, or with an empty one, is
\* answered 403 and is not passed on to static file serving, whatever the
\* tokens file holds.
C2_NoTokenForbidden ==
    (resp.method = "GET" /\ NoTokenIn(resp.query)) =>
        (resp.status = 403 /\ ~resp.static)

\* C2 witness: such a request was answered 403 while the store held a grant
\* that is still valid
C2_Witness ==
    /\ resp.method = "GET" /\ resp.query = <<"">> /\ resp.status = 403
    /\ \E t \in StoreKeys : now <= Grant(t).expires

C4_UnknownTokenInvalid ==
    \A t \in AnyToken :
        t \notin StoreKeys => ~_validate_token(t, tokens_file, now)

\* C4 witness: the store holds a grant, time has passed, and a request with
\* a token that was never issued was answered 403
C4_Witness ==
    /\ StoreKeys # {} /\ now > 0
    /\ Forged \notin StoreKeys
    /\ resp.method = "GET" /\ resp.query = <<Forged>> /\ resp.status = 403

\* C5: a URL shown by view_presentation holds a token whose grant
\* _generate_presentation_token has finished writing to the tokens file; a
\* session whose write raised shows no URL, and no URL holds its token.
C5_UrlAfterPersist ==
    \A s \in Sessions :
        /\ slidev_url[s] # "" => slidev_url[s] \in written
        /\ pc[s] = "raised" =>
              /\ slidev_url[s] = ""
              /\ token[s] # "" => \A o \in Sessions : slidev_url[o] # token[s]

\* C5 witness: one session shows its URL, the write of the other one raised
C5_Witness ==
    \E s, o \in Sessions :
        /\ pc[s] = "shown" /\ slidev_url[s] # ""
        /\ pc[o] = "raised" /\ token[o] # ""

\* C6: no step of _build_slidev removes or rewrites slides.md or the assets
\* while a process is bound to port 3030: the occupant is stopped first.
C6_StopBeforeReplace ==
    [][content' # content => ~_is_port_in_use]_vars

\* C7: once the concurrent calls of _generate_presentation_token have all
\* returned, every grant they wrote is in the persisted store.
Returned(s) == pc[s] \in {"url", "shown"}
C7_NoLostGrant ==
    (\A s \in Sessions : Returned(s)) => written \subseteq StoreKeys

\* C8: a GET answered while an issuer is between its open and its dump of
\* the tokens file is not answered 403 when its token is one the issuer
\* loaded from the file (issued and persisted earlier) and has not expired.
C8_ReadDuringWrite ==
    [][\A s \in Sessions :
          (/\ pc[s] = "dump"
           /\ Answered /\ resp'.method = "GET"
           /\ ParseToken(resp'.query) \in DOMAIN tokens[s] \ {token[s]}
           /\ now < tokens[s][ParseToken(resp'.query)].expires)
          => resp'.status # 403]_vars

\* C9: while the tokens file is missing or cannot be parsed, the load
\* returns the empty set and every request is answered 403, never content.
C9_FailClosed ==
    [][Answered /\ ~Parseable(tokens_file) =>
          /\ get_valid_tokens(tokens_file) = EmptyDict
          /\ resp'.status = 403 /\ ~resp'.static]_vars

\* C10: when view_presentation reaches _generate_presentation_token, port
\* 3030 is bound by the process this view action launched.
C10_TokenOnlyForOwnProcess ==
    \A s \in Sessions : pc[s] = "gen" => proc[view[s]] = "bound"

\* C11: when _build_slidev returns, port 3030 accepts connections and no
\* rendering process launched by an earlier view action is still alive.
C11_NoLeakedProcess ==
    \A s \in Sessions :
        pc[s] = "gen" =>
            /\ _is_port_in_use
            /\ \A p \in Procs \ {Stale, view[s]} : ~Alive(p)

\* C12: the wait of _build_slidev for port 3030 always ends, by the port
\* being bound or by giving up.
C12_WaitEnds ==
    \A s \in Sessions : (pc[s] = "wait") ~> (pc[s] # "wait")

\* C13: once _cache_presentation has run for a presentation, every file of
\* the content directory (slides.md, ./assets, the working directory
\* itself) belongs to that presentation.
Cached(s) == pc[s] \in {"stop", "find", "kill", "popen", "wait", "gen", "shown"}
C13_OnlyCurrentFiles ==
    \A s \in Sessions :
        Cached(s) =>
            /\ content.slides \in {"none", pres[s]}
            /\ content.assets \cup content.root \subseteq Assets[pres[s]]

\* C15: every GET the gate refuses gets the same response: status 403
\* with the body of lines 52-55, whether the token is missing, not in the
\* store, expired, or has a malformed record.
Refused(q) ==
    LET t == ParseToken(q)
    IN \/ t \notin StoreKeys
       \/ "expires" \notin DOMAIN Grant(t)
       \/ Grant(t).expires = NotANumber
       \/ Grant(t).expires < now
C15_SameRejection ==
    [][(Answered /\ resp'.method = "GET" /\ Refused(resp'.query)) =>
          (resp'.status = 403 /\ resp'.body = DeniedBody)]_vars

\* C14: the rendering process is launched, and a token issued, only when
\* slides.md and every asset of the presentation were downloaded.
Launched(s) == pc[s] \in {"wait", "gen", "stamp", "load", "open", "dump", "url", "shown"}
C14_DownloadErrorAborts ==
    \A s \in Sessions :
        Launched(s) =>
            /\ content.slides = pres[s]
            /\ Assets[pres[s]] \subseteq content.assets

\* C16: a GET is passed to the file serving only when the slides of the
\* content directory are those of the presentation named in the grant of
\* its token.
C16_OnlyNamedPresentation ==
    [][(Answered /\ resp'.method = "GET" /\ resp'.static) =>
          content.slides \in {"none", Grant(ParseToken(resp'.query)).presentation}]_vars

\* C17: no log record of the gate or of the issuer has a token of the
\* store in its text.
TokenValues == StoreKeys
ViewLog(s) ==
    IF slidev_url[s] = "" THEN {}
    ELSE {[site |-> "view_presentation", text |-> <<slidev_url[s]>>]}
HasToken(m) == \E i \in DOMAIN m.text : m.text[i] \in TokenValues
C17_NoTokenInLogs ==
    /\ \A m \in resp.log : ~HasToken(m)
    /\ \A s \in Sessions : \A m \in ViewLog(s) : ~HasToken(m)

\* C18: a connection that waits to be accepted can be accepted at once,
\* also while the handler of another connection is running.
C18_AcceptWhileHandling ==
    \A c \in Conns : conn[c] = "connected" => ENABLED Accept(c)

\* C19: a 200 is only ever given with a file of the content root, whatever
\* the path asked for and whether or not the token is valid.
UnderRoot(f) == Len(f) > Len(Root) /\ SubSeq(f, 1, Len(Root)) = Root
C19_NoFileOutsideRoot ==
    /\ resp.status = 200 => UnderRoot(resp.file)
    /\ resp.file # <<>> => UnderRoot(resp.file)
C19_Witness ==
    /\ resp.method = "GET" /\ resp.path = <<"..", "..", "etc", "passwd">>
    /\ resp.static /\ resp.status = 404

\* C20: when a call of _generate_presentation_token ends its write of the
\* tokens file, every grant persisted before is in the store, unchanged.
C20_GrantsKept ==
    [][\A s \in Sessions :
          (pc[s] = "dump" /\ pc'[s] # "dump") =>
              \A t \in written :
                  /\ t \in StoreKeys'
                  /\ tokens_file'.data[t] = tokens[s][t]]_vars

\* C21: when a rendering process is launched, no process launched by an
\* earlier view action is still starting: it was stopped first.
C21_StartingStoppedFirst ==
    [][\A s \in Sessions :
          (pc[s] = "popen" /\ pc'[s] = "wait") =>
              \A p \in Procs \ {Stale} : proc[p] # "starting"]_vars

\* C22: at the moment _stop_slidev returns, port 3030 is not in use.
C22_StopReturnsPortFree ==
    [][\A s \in Sessions :
          (pc[s] \in {"stop", "pkill"} /\ pc'[s] = "popen") => ~_is_port_in_use']_vars

\* C23: a kill of the process found on the port that fails does not end
\* the view action when the port is free afterwards.
C23_FailedKillNotFatal ==
    [][\A s \in Sessions :
          (pc[s] = "kill" /\ pc'[s] # "kill" /\ ~_is_port_in_use') =>
              pc'[s] # "raised"]_vars

\* C24: whenever _stop_slidev kills a PID, the process of that PID is
\* listening on port 3030.
C24_KilledIsListener ==
    [][\A s \in Sessions :
          (pc[s] = "kill" /\ proc' # proc) => proc[pid[s]] = "bound"]_vars

\* C25: every grant of the store has expires = created + 36000.
C25_ExpiresIsCreatedPlusTTL ==
    \A t \in StoreKeys : Grant(t).expires = Grant(t).created + TTL

\* C26: while failed_attempts is 5 or more and less than 60 seconds have
\* passed since the last login attempt, no run checks a password, resets
\* the counter or authenticates the session.
C26_LockoutHolds ==
    [][\A s \in Sessions :
          (/\ session_state[s].failed_attempts >= MaxAttempts
           /\ now - session_state[s].last_attempt_time < LockoutSeconds)
          => (/\ session_state'[s] = session_state[s]
              /\ ~session_state[s].authenticated
              /\ pc'[s] \in {pc[s], "locked"})]_vars
C26_Witness ==
    /\ pc["s1"] = "locked"
    /\ session_state["s1"].failed_attempts = MaxAttempts
    /\ now > session_state["s1"].last_attempt_time

\* C27: a run of an authenticated session more than 1800 seconds after
\* login_time starts no view action, and leaves the session authenticated
\* only by a login made in that run.
C27_TimeoutEndsSession ==
    [][\A s \in Sessions :
          (/\ session_state[s].authenticated
           /\ session_state[s].login_time # NoTime
           /\ now - session_state[s].login_time > SessionTimeout
           /\ pc[s] \in Resting
           /\ now' = now)
          => (/\ pc'[s] # "gen"
              /\ session_state'[s].authenticated =>
                    (\/ session_state'[s].login_time = now
                     \/ (session_state'[s] = session_state[s] /\ pc'[s] = pc[s])))]_vars
C27_Witness ==
    /\ pc["s1"] = "login"
    /\ ~session_state["s1"].authenticated
    /\ session_state["s1"].login_time # NoTime
    /\ now - session_state["s1"].login_time > SessionTimeout

====
